---- MODULE Spec2Model ----
(***************************************************************************)
(* composable-http-client: the procedure builder (src/core/builder.ts),    *)
(* the callable procedure (src/core/callable.ts), the retry executor       *)
(* (utils/retry), the input/output processors (utils/processors) and the   *)
(* lifecycle hook runner (utils/validation.ts).                            *)
(*                                                                         *)
(* JavaScript values are records with a "kind" field, so that any two      *)
(* values can be compared.  User-supplied functions (hooks, handler,       *)
(* transform, schemas, delay, catchAll) are opaque: a configuration slot   *)
(* only says whether one is set, and each call of one chooses its outcome  *)
(* (a return value or a thrown value) nondeterministically.                *)
(***************************************************************************)
EXTENDS Integers, Sequences, FiniteSets, TLC

VARIABLES
  config,       \* the builder's ProcedureConfig object (builder.ts:19-23)
  hasCallable,  \* catchAll() has returned a Callable Procedure (builder.ts:126)
  calls,        \* per invocation: the locals of `callable` and of `retry`
  lastCall,     \* the caller's latest call: which method, its argument
                \* (retry only) and what it threw synchronously (or null)
  others,       \* the factory's other builders, each with a config object
                \* of its own; config is that of the builder being used
  ext,          \* the handler(ctxHandler) calls made so far, oldest first:
                \* what ctxHandler did and what handler() returned or threw
  req,          \* one client request: the locals of coreRequest and of
                \* withTimeout, and what the request settled with
  batch,        \* one BatchProcessor: its fields, and the promises that
                \* add() and flush() have returned
  cache         \* one LRUCache: its capacity and its Map, oldest key first

procVars == <<config, hasCallable, calls, lastCall, others>>

utilVars == <<ext, req, batch, cache>>

vars == <<config, hasCallable, calls, lastCall, others, ext, req, batch, cache>>

\* ------------------------------------------------------------------ bounds
MaxRetries == 3

\* the fixed delay, in ms, the modelled callers pass to retry({delay})
DelayMs == 5

DefaultRetries == 1

DefaultDelay == 100

CallIds == {1}

\* the invocations in flight at once, and the builders besides the first
\* that one factory hands out
ConcIds == {1, 2}
BuilderIds == {2}

\* the handler(ctxHandler) calls of one run
MaxHandlerCalls == 2

\* the timeout of a client that has one, in milliseconds
TimeoutMs == 50

\* the add() calls of one run, and the processor's batchSize
MaxAdds == 4

BatchSize == 3

\* the largest capacity of the LRUCache
MaxCapacity == 2

\* ------------------------------------------------------------------ values
None == "unset"
Fn == "fn"
Schema == "schema"

Undef == [kind |-> "undefined"]
Null == [kind |-> "null"]

\* the context and the transport client given to createProcedureBuilder
Ctx == [kind |-> "ctx"]
Client == [kind |-> "client"]

RawInputs == {[kind |-> "raw", id |-> 1]}

\* safeParse(schema, v).data: the schema's (possibly coerced) output
Parsed(v) == [kind |-> "parsed", of |-> v]

\* what the handler computes from the params it was given
HandlerValue(in) == [kind |-> "handled", input |-> in]

Transformed(o) == [kind |-> "transformed", of |-> o]

Mapped(e) == [kind |-> "mapped", of |-> e]

\* new Error(message)
JsError(msg) ==
  [kind |-> "Error", message |-> msg, rstatus |-> {}, status |-> {}, at |-> 0]

\* an error thrown by the handler's attempt number n, carrying
\* error.response.status = rs and error.status = s ({} when absent)
HandlerError(n, rs, s) ==
  [kind |-> "Error", message |-> <<"handler failed">>, rstatus |-> rs,
   status |-> s, at |-> n]

\* the (response.status, status) shapes the modelled handler throws
ThrownShapes == {<<{}, {}>>, <<{404}, {}>>, <<{}, {400}>>, <<{}, {499}>>,
                 <<{500}, {404}>>, <<{}, {399}>>}

HandlerThrows(n) ==
  {HandlerError(n, sh[1], sh[2]) : sh \in ThrownShapes} \cup {Undef}

HandlerReturns(in) == {HandlerValue(in), Null}

TransformReturns(o) == {Transformed(o), Undef}

CatchAllReturns(e) == {Mapped(e), Null, Undef}

\* error instanceof Error ? error.message : String(error)
MessageOf(e) ==
  IF e.kind \in {"Error", "RetryError", "ValidationError", "TypeError",
                 "ConfigurationError"}
    THEN e.message ELSE <<e.kind>>

ValidationError(validationType, msg) ==
  [kind |-> "ValidationError", validationType |-> validationType,
   message |-> msg]

ConfigurationError(msg, field) ==
  [kind |-> "ConfigurationError", message |-> msg, field |-> field]

\* new RetryError(attempts, lastError): the constructor reads
\* lastError.message, which throws a TypeError on null and undefined
RetryError(attempts, lastError) ==
  IF lastError.kind \in {"undefined", "null"}
    THEN [kind |-> "TypeError",
          message |-> <<"Cannot read properties of", lastError.kind>>]
    ELSE [kind |-> "RetryError", attempts |-> attempts,
          lastError |-> lastError,
          message |-> <<"All retry attempts failed. Last error:">>
                        \o MessageOf(lastError)]

\* ----------------------------------------------------- procedure builder
\* retry(options): the option objects the modelled callers pass
RetryOptionChoices ==
  {[retries |-> {n}, delay |-> {DelayMs}, delayFn |-> FALSE] : n \in -1..MaxRetries}
  \cup {[retries |-> {3}, delay |-> {}, delayFn |-> TRUE],
        [retries |-> {}, delay |-> {0}, delayFn |-> FALSE]}

DefaultRetryOptions ==
  [retries |-> {DefaultRetries}, delay |-> {DefaultDelay}, delayFn |-> FALSE]

createProcedureBuilder ==
  [inputSchema |-> None, outputSchemaOrFn |-> None,
   retryOptions |-> DefaultRetryOptions, transformFn |-> None,
   catchAllFn |-> None, onStartFn |-> None, onSuccessFn |-> None,
   onCompleteFn |-> None, mainHandler |-> None, ctx |-> Ctx,
   client |-> Client]

\* a call of method op that returned
Returned(op) == [op |-> op, arg |-> Undef, threw |-> Null]

\* a call of method op that threw e synchronously
Threw(op, e) == [op |-> op, arg |-> Undef, threw |-> e]

\* the modelled caller configures the builder between invocations, not
\* while one of them is suspended at an await
Quiescent == \A i \in DOMAIN calls : calls[i].pc = "idle"

\* a configurator that stores its argument before it looks at the slot
SetOnceAssignFirst(op, slot, value) ==
  /\ Quiescent
  /\ config' = [config EXCEPT ![slot] = value]
  /\ lastCall' = IF config[slot] # None
                   THEN Threw(op, JsError(<<op, "() can only be called once.">>))
                   ELSE Returned(op)

\* the guard of a single-use configurator op, which throws when its slot is
\* set and sets it otherwise
SetOnce(op, slot, value) ==
  /\ Quiescent
  /\ IF config[slot] # None
       THEN /\ lastCall' = Threw(op, JsError(<<op, "() can only be called once.">>))
            /\ UNCHANGED config
       ELSE /\ config' = [config EXCEPT ![slot] = value]
            /\ lastCall' = Returned(op)

\* some invocation is suspended at an await of the pipeline
InFlight == \E i \in DOMAIN calls : calls[i].pc \notin {"idle", "done"}

\* the same configurator body, called while an invocation is suspended
SetWhileInFlight(op, slot, value) ==
  /\ InFlight
  /\ IF config[slot] # None
       THEN /\ lastCall' = Threw(op, JsError(<<op, "() can only be called once.">>))
            /\ UNCHANGED config
       ELSE /\ config' = [config EXCEPT ![slot] = value]
            /\ lastCall' = Returned(op)

inflight_transform ==
  /\ SetWhileInFlight("transform", "transformFn", Fn)
  /\ UNCHANGED <<hasCallable, calls, others, utilVars>>

inflight_output ==
  /\ \E schemaOrFn \in {Schema, Fn} :
       SetWhileInFlight("output", "outputSchemaOrFn", schemaOrFn)
  /\ UNCHANGED <<hasCallable, calls, others, utilVars>>

inflight_onSuccess ==
  /\ SetWhileInFlight("onSuccess", "onSuccessFn", Fn)
  /\ UNCHANGED <<hasCallable, calls, others, utilVars>>

inflight_onComplete ==
  /\ SetWhileInFlight("onComplete", "onCompleteFn", Fn)
  /\ UNCHANGED <<hasCallable, calls, others, utilVars>>

\* the options that the owner passes to a retry() made in flight
InflightRetryChoices ==
  {[retries |-> {2}, delay |-> {DelayMs}, delayFn |-> FALSE]}

\* retry(options?) called while an invocation is suspended
inflight_retry ==
  /\ InFlight
  /\ \E options \in InflightRetryChoices \cup {Undef} :
       /\ config' = [config EXCEPT
                       !.retryOptions = IF options = Undef
                                          THEN DefaultRetryOptions
                                          ELSE options]
       /\ lastCall' = [op |-> "retry", arg |-> options, threw |-> Null]
  /\ UNCHANGED <<hasCallable, calls, others, utilVars>>

builder_input ==
  /\ SetOnce("input", "inputSchema", Schema)
  /\ UNCHANGED <<hasCallable, calls, others, utilVars>>

builder_onStart ==
  /\ SetOnce("onStart", "onStartFn", Fn)
  /\ UNCHANGED <<hasCallable, calls, others, utilVars>>

builder_onSuccess ==
  /\ SetOnce("onSuccess", "onSuccessFn", Fn)
  /\ UNCHANGED <<hasCallable, calls, others, utilVars>>

\* a retry() that keeps the stored options when it is called without one
builder_retryKeepsOnNoArg ==
  /\ Quiescent
  /\ \E options \in RetryOptionChoices \cup {Undef} :
       /\ config' = [config EXCEPT
                       !.retryOptions = IF options = Undef THEN @ ELSE options]
       /\ lastCall' = [op |-> "retry", arg |-> options, threw |-> Null]
  /\ UNCHANGED <<hasCallable, calls, others, utilVars>>

\* retry(options?): config.retryOptions = options ?? { retries: 1, delay: 100 }
builder_retry ==
  /\ Quiescent
  /\ \E options \in RetryOptionChoices \cup {Undef} :
       /\ config' = [config EXCEPT
                       !.retryOptions = IF options = Undef
                                          THEN DefaultRetryOptions
                                          ELSE options]
       /\ lastCall' = [op |-> "retry", arg |-> options, threw |-> Null]
  /\ UNCHANGED <<hasCallable, calls, others, utilVars>>

builder_handler ==
  /\ SetOnce("handler", "mainHandler", Fn)
  /\ UNCHANGED <<hasCallable, calls, others, utilVars>>

builder_output ==
  /\ \E schemaOrFn \in {Schema, Fn} :
       SetOnce("output", "outputSchemaOrFn", schemaOrFn)
  /\ UNCHANGED <<hasCallable, calls, others, utilVars>>

builder_transform ==
  /\ SetOnce("transform", "transformFn", Fn)
  /\ UNCHANGED <<hasCallable, calls, others, utilVars>>

builder_onComplete ==
  /\ SetOnce("onComplete", "onCompleteFn", Fn)
  /\ UNCHANGED <<hasCallable, calls, others, utilVars>>

\* validateConfig(config): TRUE when it returns, FALSE when it throws
validateConfig(cfg) == cfg.mainHandler # None

\* catchAll(fn): throws when the slot is set; else sets it, and then
\* createCallableProcedure validates the configuration and throws when no
\* handler is set
builder_catchAll ==
  /\ Quiescent
  /\ IF config.catchAllFn # None
       THEN /\ lastCall' = Threw("catchAll",
                                 JsError(<<"catchAll", "() can only be called once.">>))
            /\ UNCHANGED <<config, hasCallable>>
       ELSE /\ config' = [config EXCEPT !.catchAllFn = Fn]
            /\ IF validateConfig(config')
                 THEN /\ hasCallable' = TRUE
                      /\ lastCall' = Returned("catchAll")
                 ELSE /\ lastCall' = Threw("catchAll",
                                           ConfigurationError(
                                             <<"Main handler is required.">>,
                                             "mainHandler"))
                      /\ UNCHANGED hasCallable
  /\ UNCHANGED <<calls, others, utilVars>>

\* ---------------------------------------------------- callable procedure
Pending == [settled |-> "pending", data |-> Undef, error |-> Undef]

\* the locals of one invocation before it starts
IdleCall ==
  [pc |-> "idle", input |-> Undef, parsedInput |-> Undef, output |-> Undef,
   error |-> Null, retries |-> 0, delay |-> DefaultRetryOptions,
   attempt |-> 0, lastError |-> Null, trace |-> <<>>, waits |-> <<>>,
   thrown |-> "", params |-> {}, infos |-> <<>>, returned |-> {},
   schemaArgs |-> {}, delayArgs |-> <<>>, mapper |-> <<>>,
   result |-> Pending]

\* history: stage st ran and settled with res ("ok" or "throw")
Log(c, st, res) == [c EXCEPT !.trace = Append(@, [st |-> st, res |-> res])]

\* the order of the repository's other variant of the try block, which
\* validates the output before it transforms it
PipelineOutputFirst ==
  <<"onStart", "input", "handler", "output", "transform", "onSuccess",
    "onComplete">>

\* the order of the awaited stages inside the try block
Pipeline ==
  <<"onStart", "input", "handler", "transform", "output", "onSuccess",
    "onComplete">>

IndexOf(st) == CHOOSE k \in 1..Len(Pipeline) : Pipeline[k] = st

\* an input stage that parses with a default schema when none is set
ConfiguredInputAlways(cfg, st) ==
  CASE st = "onStart" -> cfg.onStartFn # None
    [] st = "input" -> TRUE
    [] st = "handler" -> TRUE
    [] st = "transform" -> cfg.transformFn # None
    [] st = "output" -> cfg.outputSchemaOrFn # None
    [] st = "onSuccess" -> cfg.onSuccessFn # None
    [] st = "onComplete" -> cfg.onCompleteFn # None

\* does stage st do anything under cfg (hook or schema present)?
Configured(cfg, st) ==
  CASE st = "onStart" -> cfg.onStartFn # None
    [] st = "input" -> cfg.inputSchema # None
    [] st = "handler" -> TRUE
    [] st = "transform" -> cfg.transformFn # None
    [] st = "output" -> cfg.outputSchemaOrFn # None
    [] st = "onSuccess" -> cfg.onSuccessFn # None
    [] st = "onComplete" -> cfg.onCompleteFn # None

\* return { data: output, error: null }
ReturnData(c) ==
  [c EXCEPT !.pc = "done",
            !.result = [settled |-> "resolved", data |-> c.output,
                        error |-> Null]]

\* finalError = catchAllFn ? catchAllFn(error) : error;
\* return { data: null, error: finalError }
ReturnError(cfg, c) ==
  IF cfg.catchAllFn # None
    THEN [c EXCEPT !.pc = "catchAll"]
    ELSE [c EXCEPT !.pc = "done",
                   !.result = [settled |-> "resolved", data |-> Null,
                               error |-> c.error]]

\* catch (e): error = e; onComplete (if any) runs before the final error
Catch(cfg, c, e) ==
  LET c1 == [c EXCEPT !.error = e, !.attempt = 0, !.lastError = Null]
  IN  IF cfg.onCompleteFn # None
        THEN [c1 EXCEPT !.pc = "catch_onComplete"]
        ELSE ReturnError(cfg, c1)

\* the top of retry's while loop
LoopTop(cfg, c) ==
  IF c.attempt < c.retries
    THEN [c EXCEPT !.pc = "handler"]
    ELSE Catch(cfg, Log(c, "retry", "throw"),
               RetryError(c.attempt,
                          IF c.lastError.kind \in {"null", "undefined"}
                            THEN JsError(<<"Unexpected retry loop exit">>)
                            ELSE c.lastError))

\* the check for a handler, then retry(fn, config.retryOptions) up to its loop
RetryStart(cfg, c) ==
  IF cfg.mainHandler = None
    THEN Catch(cfg, c, JsError(<<"Main handler is not defined">>))
    ELSE LET o == cfg.retryOptions
             c1 == [c EXCEPT
                      !.retries = IF o.retries = {} THEN DefaultRetries
                                  ELSE CHOOSE n \in o.retries : TRUE,
                      !.delay = IF o.delay = {} /\ ~o.delayFn
                                  THEN [o EXCEPT !.delay = {DefaultDelay}]
                                  ELSE o,
                      !.attempt = 0, !.lastError = Null]
         IN  LoopTop(cfg, c1)

RECURSIVE Enter(_, _, _)
\* control reaches stage number k of the pipeline: stages with nothing
\* configured return at once, the end of the try block returns the data
Enter(cfg, c, k) ==
  IF k > Len(Pipeline) THEN ReturnData(c)
  ELSE IF ~Configured(cfg, Pipeline[k]) THEN Enter(cfg, c, k + 1)
  ELSE IF Pipeline[k] = "handler" THEN RetryStart(cfg, c)
  ELSE [c EXCEPT !.pc = Pipeline[k]]

\* stage st settled without throwing
After(cfg, c, st) == Enter(cfg, c, IndexOf(st) + 1)

\* the call starts: let parsedInput = input, output, error = null
Start(cfg, inp) ==
  Enter(cfg, [IdleCall EXCEPT !.input = inp, !.parsedInput = inp], 1)

\* ------------------------------------------------ user-supplied functions
\* the handler's argument with the raw input in place of the parsed one
HandlerParamsRaw(cfg, c) ==
  [input |-> c.input, ctx |-> cfg.ctx, client |-> cfg.client]

\* the handler's argument: { input: parsedInput, ctx, client }
HandlerParams(cfg, c) ==
  [input |-> c.parsedInput, ctx |-> cfg.ctx, client |-> cfg.client]

\* the argument of a schema function: outputSchemaOrFn({ ctx, input, output })
SchemaFnParams(cfg, c) ==
  [ctx |-> cfg.ctx, input |-> c.parsedInput, output |-> c.output]

\* an onComplete argument that carries the raw input
InfoRawInput(c, ok) ==
  [isSuccess |-> ok, isError |-> ~ok, input |-> c.input,
   output |-> c.output, error |-> IF ok THEN Undef ELSE c.error]

\* the argument of onComplete: on the success path (ok) the error is the
\* literal undefined, in the catch block it is the caught value
Info(c, ok) ==
  [isSuccess |-> ok, isError |-> ~ok, input |-> c.parsedInput,
   output |-> c.output, error |-> IF ok THEN Undef ELSE c.error]

\* history: onComplete was called with Info(c, ok)
Told(c, ok) == [c EXCEPT !.infos = Append(@, Info(c, ok))]

HookThrows == {JsError(<<"hook failed">>), Undef}

TransformThrows == {JsError(<<"transform failed">>)}

SchemaFnThrows == {JsError(<<"schema function failed">>)}

OnCompleteThrows == {JsError(<<"onComplete failed">>)}

CatchAllThrows == {JsError(<<"catchAll failed">>)}

\* the caller's delay function, as in the tests: attempt => attempt * d
DelayFn(attempt, e) == attempt * DelayMs

\* a hook wrapper that rethrows what the hook threw
HookErrorRethrown(hookName, e) == e

\* executeLifecycleHook's wrapping of a value thrown by hook hookName
HookError(hookName, e) ==
  JsError(<<"Error in", hookName, "hook:">> \o MessageOf(e))

\* ------------------------------------------------------- retry executor
\* error?.response?.status ?? error?.status ?? undefined
StatusOf(e) ==
  IF e.kind # "Error" THEN {}
  ELSE IF e.rstatus # {} THEN e.rstatus ELSE e.status

\* a boundary slip: status > 400
IsClientStatusAbove400(e) == \E s \in StatusOf(e) : s > 400 /\ s < 500

\* a slip: no upper limit, a 5xx status counts as a client error
IsClientStatusNoUpper(e) == \E s \in StatusOf(e) : s >= 400

\* typeof status === 'number' && status >= 400 && status < 500
IsClientStatus(e) == \E s \in StatusOf(e) : s >= 400 /\ s < 500

\* a slip: wrap in RetryError after a single attempt too
ExhaustedAlwaysWrap(cfg, c) ==
  Catch(cfg, Log(c, "retry", "throw"), RetryError(c.attempt, c.lastError))

\* attempt >= retries: wrap in RetryError only after more than one attempt
Exhausted(cfg, c) ==
  IF c.attempt > 1
    THEN Catch(cfg, Log(c, "retry", "throw"),
               RetryError(c.attempt, c.lastError))
    ELSE Catch(cfg, Log(c, "retry", "throw"), c.lastError)

\* a slip: the next attempt starts at once, without the wait
AttemptFailedNoWait(cfg, c, e) ==
  LET c1 == [c EXCEPT !.lastError = e]
  IN  IF IsClientStatus(e) THEN Catch(cfg, Log(c1, "retry", "throw"), e)
      ELSE LET c2 == [c1 EXCEPT !.attempt = @ + 1]
           IN  IF c2.attempt >= c2.retries THEN Exhausted(cfg, c2)
               ELSE LoopTop(cfg, c2)

\* the catch block of retry's loop, entered with the thrown value e
AttemptFailed(cfg, c, e) ==
  LET c1 == [c EXCEPT !.lastError = e]
  IN  IF IsClientStatus(e) THEN Catch(cfg, Log(c1, "retry", "throw"), e)
      ELSE LET c2 == [c1 EXCEPT !.attempt = @ + 1]
           IN  IF c2.attempt >= c2.retries THEN Exhausted(cfg, c2)
               ELSE [c2 EXCEPT !.pc = "delay"]

\* a delay function called before attempt++, with the 0-based number
DelayArgsZeroBased(c) == [attempt |-> c.attempt - 1, error |-> c.lastError]

\* the arguments of delay(attempt, e as Error)
DelayArgs(c) == [attempt |-> c.attempt, error |-> c.lastError]

\* history: the delay function was called with args; of the error only
\* the attempt that threw it is kept (0 for a thrown value that is no Error)
Called(args) ==
  [attempt |-> args.attempt,
   thrownAt |-> IF args.error.kind = "Error" THEN args.error.at ELSE 0]

\* typeof delay === 'function' ? delay(attempt, e) : delay
WaitOf(c) ==
  IF c.delay.delayFn THEN DelayFn(DelayArgs(c).attempt, DelayArgs(c).error)
  ELSE CHOOSE d \in c.delay.delay : TRUE

\* history only (the field thrown): what the latest failed handler
\* attempt threw: an Error whose status is in [400, 500) ("4xx"), another
\* Error ("error"), or a value that is no Error ("value")
ThrownClass(e) ==
  IF e.kind # "Error" THEN "value"
  ELSE IF \E s \in (IF e.rstatus # {} THEN e.rstatus ELSE e.status) :
            s \in 400..499
    THEN "4xx" ELSE "error"

HandlerCalls(c) ==
  Cardinality({k \in DOMAIN c.trace : c.trace[k].st = "handler"})

\* ------------------------------------------------------------- actions
Set(i, c) == calls' = [calls EXCEPT ![i] = c]

\* calling the Callable Procedure that catchAll() returned
callable_invoke(i) ==
  /\ hasCallable
  /\ calls[i].pc = "idle"
  /\ \E inp \in RawInputs : Set(i, Start(config, inp))
  /\ lastCall' = Returned("invoke")
  /\ UNCHANGED <<config, hasCallable, others, utilVars>>

\* calling the builder itself: createCallableProcedure(config)(input)
builder_invoke(i) ==
  /\ calls[i].pc = "idle"
  /\ \E inp \in RawInputs :
       IF validateConfig(config)
         THEN Set(i, Start(config, inp))
         ELSE Set(i, [IdleCall EXCEPT
                !.pc = "done", !.input = inp,
                !.result = [settled |-> "rejected", data |-> Undef,
                            error |-> ConfigurationError(
                               <<"Main handler is required.">>,
                               "mainHandler")]])
  /\ lastCall' = Returned("invoke")
  /\ UNCHANGED <<config, hasCallable, others, utilVars>>

callable_onStart(i) ==
  /\ calls[i].pc = "onStart"
  /\ \/ Set(i, After(config, Log(calls[i], "onStart", "ok"), "onStart"))
     \/ \E v \in HookThrows :
          Set(i, Catch(config, Log(calls[i], "onStart", "throw"),
                       HookError("onStart", v)))
  /\ UNCHANGED <<config, hasCallable, lastCall, others, utilVars>>

\* an input stage whose validation failure does not stop the pipeline
callable_processInputLenient(i) ==
  /\ calls[i].pc = "input"
  /\ \/ Set(i, After(config,
                     [Log(calls[i], "input", "ok") EXCEPT
                        !.parsedInput = Parsed(calls[i].input)],
                     "input"))
     \/ Set(i, After(config, Log(calls[i], "input", "throw"), "input"))
  /\ UNCHANGED <<config, hasCallable, lastCall, others, utilVars>>

\* an input stage that keeps parsedInput in the scope the invocations share
callable_processInputShared(i) ==
  /\ calls[i].pc = "input"
  /\ \/ calls' =
          [j \in DOMAIN calls |->
             IF j = i
               THEN After(config,
                          [Log(calls[i], "input", "ok") EXCEPT
                             !.parsedInput = Parsed(calls[i].input)],
                          "input")
               ELSE [calls[j] EXCEPT !.parsedInput = Parsed(calls[i].input)]]
     \/ Set(i, Catch(config, Log(calls[i], "input", "throw"),
                     ValidationError("input", <<"Input validation failed">>)))
  /\ UNCHANGED <<config, hasCallable, lastCall, others, utilVars>>

callable_processInput(i) ==
  /\ calls[i].pc = "input"
  /\ \/ Set(i, After(config,
                     [Log(calls[i], "input", "ok") EXCEPT
                        !.parsedInput = Parsed(calls[i].input)],
                     "input"))
     \/ Set(i, Catch(config, Log(calls[i], "input", "throw"),
                     ValidationError("input", <<"Input validation failed">>)))
  /\ UNCHANGED <<config, hasCallable, lastCall, others, utilVars>>

\* one pass of retry's loop body: await fn(), and its catch block
retry_attempt(i) ==
  /\ calls[i].pc = "handler"
  /\ LET p == HandlerParams(config, calls[i])
         c0 == [calls[i] EXCEPT !.params = @ \cup {p}]
     IN  \/ \E v \in HandlerReturns(p.input) :
              Set(i, After(config,
                           [Log(Log(c0, "handler", "ok"), "retry", "ok")
                              EXCEPT !.output = v, !.attempt = 0,
                                     !.lastError = Null,
                                     !.returned = {v}],
                           "handler"))
         \/ \E e \in HandlerThrows(HandlerCalls(calls[i]) + 1) :
              Set(i, AttemptFailed(config,
                                   [Log(c0, "handler", "throw") EXCEPT
                                      !.thrown = ThrownClass(e)],
                                   e))
  /\ UNCHANGED <<config, hasCallable, lastCall, others, utilVars>>

\* the wait between two attempts, then the loop's next pass
retry_delay(i) ==
  /\ calls[i].pc = "delay"
  /\ LET wait == WaitOf(calls[i])
         c1 == [calls[i] EXCEPT
                  !.waits = Append(@, wait),
                  !.delayArgs = IF calls[i].delay.delayFn
                                  THEN Append(@, Called(DelayArgs(calls[i])))
                                  ELSE @]
     IN  Set(i, LoopTop(config,
                        Log(c1, "delay", IF wait > 0 THEN "wait" ELSE "nowait")))
  /\ UNCHANGED <<config, hasCallable, lastCall, others, utilVars>>

\* a transform inside the retried function: its failure is one more failed
\* attempt
callable_transformRetried(i) ==
  /\ calls[i].pc = "transform"
  /\ \/ \E v \in TransformReturns(calls[i].output) :
          Set(i, After(config,
                       [Log(calls[i], "transform", "ok") EXCEPT !.output = v],
                       "transform"))
     \/ \E e \in TransformThrows :
          IF HandlerCalls(calls[i]) < calls[i].retries
            THEN Set(i, [Log(calls[i], "transform", "throw") EXCEPT
                           !.pc = "handler"])
            ELSE Set(i, Catch(config, Log(calls[i], "transform", "throw"), e))
  /\ UNCHANGED <<config, hasCallable, lastCall, others, utilVars>>

callable_transform(i) ==
  /\ calls[i].pc = "transform"
  /\ \/ \E v \in TransformReturns(calls[i].output) :
          Set(i, After(config,
                       [Log(calls[i], "transform", "ok") EXCEPT !.output = v],
                       "transform"))
     \/ \E e \in TransformThrows :
          Set(i, Catch(config, Log(calls[i], "transform", "throw"), e))
  /\ UNCHANGED <<config, hasCallable, lastCall, others, utilVars>>

\* an output stage that reports its failure as an input failure
callable_processOutputAsInput(i) ==
  /\ calls[i].pc = "output"
  /\ LET c0 == [calls[i] EXCEPT
                  !.schemaArgs = IF config.outputSchemaOrFn = Fn
                                   THEN @ \cup {SchemaFnParams(config, calls[i])}
                                   ELSE @]
     IN  \/ Set(i, After(config,
                         [Log(c0, "output", "ok") EXCEPT
                            !.output = Parsed(calls[i].output)],
                         "output"))
         \/ Set(i, Catch(config, Log(c0, "output", "throw"),
                         ValidationError("input",
                                         <<"Input validation failed">>)))
         \/ /\ config.outputSchemaOrFn = Fn
            /\ \E e \in SchemaFnThrows :
                 Set(i, Catch(config, Log(c0, "output", "throw"), e))
  /\ UNCHANGED <<config, hasCallable, lastCall, others, utilVars>>

\* an output stage that validates what the handler returned, not what the
\* transform made of it
callable_processOutputOfHandler(i) ==
  /\ calls[i].pc = "output"
  /\ LET c0 == [calls[i] EXCEPT
                  !.schemaArgs = IF config.outputSchemaOrFn = Fn
                                   THEN @ \cup {SchemaFnParams(config, calls[i])}
                                   ELSE @]
     IN  \/ \E h \in calls[i].returned :
              Set(i, After(config,
                           [Log(c0, "output", "ok") EXCEPT !.output = Parsed(h)],
                           "output"))
         \/ Set(i, Catch(config, Log(c0, "output", "throw"),
                         ValidationError("output",
                                         <<"Output validation failed">>)))
         \/ /\ config.outputSchemaOrFn = Fn
            /\ \E e \in SchemaFnThrows :
                 Set(i, Catch(config, Log(c0, "output", "throw"), e))
  /\ UNCHANGED <<config, hasCallable, lastCall, others, utilVars>>

callable_processOutput(i) ==
  /\ calls[i].pc = "output"
  /\ LET c0 == [calls[i] EXCEPT
                  !.schemaArgs = IF config.outputSchemaOrFn = Fn
                                   THEN @ \cup {SchemaFnParams(config, calls[i])}
                                   ELSE @]
     IN  \/ Set(i, After(config,
                         [Log(c0, "output", "ok") EXCEPT
                            !.output = Parsed(calls[i].output)],
                         "output"))
         \/ Set(i, Catch(config, Log(c0, "output", "throw"),
                         ValidationError("output",
                                         <<"Output validation failed">>)))
         \/ /\ config.outputSchemaOrFn = Fn
            /\ \E e \in SchemaFnThrows :
                 Set(i, Catch(config, Log(c0, "output", "throw"), e))
  /\ UNCHANGED <<config, hasCallable, lastCall, others, utilVars>>

callable_onSuccess(i) ==
  /\ calls[i].pc = "onSuccess"
  /\ \/ Set(i, After(config, Log(calls[i], "onSuccess", "ok"), "onSuccess"))
     \/ \E v \in HookThrows :
          Set(i, Catch(config, Log(calls[i], "onSuccess", "throw"),
                       HookError("onSuccess", v)))
  /\ UNCHANGED <<config, hasCallable, lastCall, others, utilVars>>

\* onComplete on the success path, inside the try block
callable_onComplete(i) ==
  /\ calls[i].pc = "onComplete"
  /\ \/ Set(i, After(config, Log(Told(calls[i], TRUE), "onComplete", "ok"),
                     "onComplete"))
     \/ \E v \in OnCompleteThrows :
          Set(i, Catch(config, Log(Told(calls[i], TRUE), "onComplete", "throw"),
                       v))
  /\ UNCHANGED <<config, hasCallable, lastCall, others, utilVars>>

\* onComplete in the catch block: what it throws is logged and dropped
callable_catch_onComplete(i) ==
  /\ calls[i].pc = "catch_onComplete"
  /\ \E res \in {"ok", "throw"} :
       Set(i, ReturnError(config, Log(Told(calls[i], FALSE), "onComplete", res)))
  /\ UNCHANGED <<config, hasCallable, lastCall, others, utilVars>>

\* a catch block that calls the mapper and returns the caught error anyway
callable_catchAllIgnored(i) ==
  /\ calls[i].pc = "catchAll"
  /\ \/ \E v \in CatchAllReturns(calls[i].error) :
          Set(i, [Log(calls[i], "catchAll", "ok") EXCEPT
                    !.pc = "done",
                    !.mapper = Append(@, [arg |-> calls[i].error, ret |-> {v}]),
                    !.result = [settled |-> "resolved", data |-> Null,
                                error |-> calls[i].error]])
     \/ \E e \in CatchAllThrows :
          Set(i, [Log(calls[i], "catchAll", "throw") EXCEPT
                    !.pc = "done",
                    !.mapper = Append(@, [arg |-> calls[i].error, ret |-> {}]),
                    !.result = [settled |-> "rejected", data |-> Undef,
                                error |-> e]])
  /\ UNCHANGED <<config, hasCallable, lastCall, others, utilVars>>

\* config.catchAllFn(error), outside any try block
callable_catchAll(i) ==
  /\ calls[i].pc = "catchAll"
  /\ \/ \E v \in CatchAllReturns(calls[i].error) :
          Set(i, [Log(calls[i], "catchAll", "ok") EXCEPT
                    !.pc = "done",
                    !.mapper = Append(@, [arg |-> calls[i].error, ret |-> {v}]),
                    !.result = [settled |-> "resolved", data |-> Null,
                                error |-> v]])
     \/ \E e \in CatchAllThrows :
          Set(i, [Log(calls[i], "catchAll", "throw") EXCEPT
                    !.pc = "done",
                    !.mapper = Append(@, [arg |-> calls[i].error, ret |-> {}]),
                    !.result = [settled |-> "rejected", data |-> Undef,
                                error |-> e]])
  /\ UNCHANGED <<config, hasCallable, lastCall, others, utilVars>>

\* the caller has consumed the settled promise; the locals are gone
collect(i) ==
  /\ calls[i].pc = "done"
  /\ Set(i, IdleCall)
  /\ UNCHANGED <<config, hasCallable, lastCall, others, utilVars>>

\* ------------------------------------------------- concurrent callers
\* the input that caller i passes
OwnInput(i) == [kind |-> "raw", id |-> i]

\* caller i calls the Callable Procedure with its own input while other
\* invocations may be suspended
concurrent_invoke(i) ==
  /\ hasCallable
  /\ calls[i].pc = "idle"
  /\ Set(i, Start(config, OwnInput(i)))
  /\ lastCall' = Returned("invoke")
  /\ UNCHANGED <<config, hasCallable, others, utilVars>>

\* ------------------------------------------------------ procedure factory
\* a builder whose config is the one object of the factory's scope
SharedBuilder == [config |-> config, hasCallable |-> hasCallable]

\* createProcedure(ctx, client): a builder with a fresh config object
NewBuilder == [config |-> createProcedureBuilder, hasCallable |-> FALSE]

\* one more call of the factory () => createProcedure(ctx, client)
factory_procedure ==
  /\ Quiescent
  /\ \E b \in BuilderIds :
       /\ others[b] = {}
       /\ others' = [others EXCEPT ![b] = {NewBuilder}]
  /\ lastCall' = Returned("procedure")
  /\ UNCHANGED <<config, hasCallable, calls, utilVars>>

\* the caller goes on with builder b and puts the one it was using aside
caller_select(b) ==
  /\ Quiescent
  /\ others[b] # {}
  /\ LET o == CHOOSE x \in others[b] : TRUE
     IN  /\ config' = o.config
         /\ hasCallable' = o.hasCallable
         /\ others' = [others EXCEPT
                         ![b] = {[config |-> config,
                                  hasCallable |-> hasCallable]}]
  /\ lastCall' = Returned("select")
  /\ UNCHANGED <<calls, utilVars>>

\* ------------------------------------------------------ client request
\* new HttpError(message, status, data, headers)
HttpError(status) == [kind |-> "HttpError", status |-> status]

\* new TimeoutError(timeout)
TimeoutError(timeout) == [kind |-> "TimeoutError", timeout |-> timeout]

\* new NetworkError('Network request failed', error)
NetworkError == [kind |-> "NetworkError"]

\* new TokenRefreshError('Token refresh failed', refreshError)
TokenRefreshError(originalError) ==
  [kind |-> "TokenRefreshError", originalError |-> originalError]

\* how the transport's promise settles: a response with a status, a failure
\* to connect, or (axios, which times out by itself) an aborted connection
Response(status) == [kind |-> "response", status |-> status]

NetworkFailure == [kind |-> "network"]

Aborted == [kind |-> "aborted"]

\* the rejection of withTimeout's timer
TimedOut == [kind |-> "timeout"]

Statuses == {200, 401, 500}

Settlements(adapter) ==
  {Response(st) : st \in Statuses} \cup {NetworkFailure}
    \cup (IF adapter = "axios" THEN {Aborted} ELSE {})

\* axios.ts: const timeout = config.timeout ?? 5000
AxiosDefaultTimeout == 5000

\* fetch.ts: config.timeout ?? timeout, the client's timeout defaulting to
\* 0; axios.ts: config.timeout ?? 5000 (configTimeout is {} when absent)
EffectiveTimeout(adapter, configTimeout, clientTimeout) ==
  IF configTimeout # {} THEN CHOOSE t \in configTimeout : TRUE
  ELSE IF adapter = "fetch" THEN clientTimeout
  ELSE AxiosDefaultTimeout

\* no request made yet
IdleRequest ==
  [pc |-> "idle", adapter |-> "none", refreshToken |-> FALSE,
   configTimeout |-> {}, timeout |-> 0,
   retry |-> FALSE, sends |-> 0, refreshes |-> 0, store |-> 0,
   headers |-> <<>>, timer |-> "none", transport |-> "none", seen |-> <<>>,
   late |-> 0, refreshThrew |-> FALSE, result |-> Null]

\* a re-send that reuses the headers computed for the first send
CoreRequestStaleHeaders(r, retry) ==
  [r EXCEPT !.retry = retry, !.sends = @ + 1,
            !.headers = IF @ = <<>>
                          THEN <<[tokens |-> r.store,
                                  refreshes |-> r.refreshes]>>
                          ELSE Append(@, @[1]),
            !.pc = "sending", !.transport = "pending",
            !.timer = IF r.adapter = "fetch" /\ r.timeout # 0
                        THEN "armed" ELSE "none"]

\* coreRequest(config, retry) up to its await: tokens = getTokens(), the
\* headers from resolveHeaders(headers, tokens), the transport's request,
\* and (fetch adapter) withTimeout, which starts a timer unless timeout is 0
CoreRequest(r, retry) ==
  [r EXCEPT !.retry = retry, !.sends = @ + 1,
            !.headers = Append(@, [tokens |-> r.store,
                                   refreshes |-> r.refreshes]),
            !.pc = "sending", !.transport = "pending",
            !.timer = IF r.adapter = "fetch" /\ r.timeout # 0
                        THEN "armed" ELSE "none"]

\* the error that coreRequest's catch block makes of what it caught
ErrorOf(r, out) ==
  CASE out.kind = "timeout" -> TimeoutError(r.timeout)
    [] out.kind = "aborted" -> TimeoutError(r.timeout)
    [] out.kind = "network" -> NetworkError
    [] out.kind = "response" -> HttpError(out.status)

\* the request's promise settles with res
Settle(r, res) == [r EXCEPT !.pc = "done", !.result = res]

\* a re-send awaited inside the try block, whose failure the catch
\* (refreshError) clause wraps
ResendFailureCaught(e) == TokenRefreshError(e)

\* return coreRequest(config, true): the re-sent request's own rejection
\* is what the first request's promise rejects with
ResendFailure(e) == e

\* the await of coreRequest has settled with out: return the data, or the
\* catch block
Continue(r, out) ==
  LET r1 == [r EXCEPT !.seen = Append(@, out)]
  IN  IF out.kind = "response" /\ out.status = 200
        THEN Settle(r1, [kind |-> "data"])
      ELSE IF /\ out.kind = "response"
              /\ out.status = 401
              /\ r.refreshToken
              /\ ~r.retry
        THEN [r1 EXCEPT !.pc = "refreshing"]
      ELSE IF r.retry THEN Settle(r1, ResendFailure(ErrorOf(r, out)))
      ELSE Settle(r1, ErrorOf(r, out))

\* a response handler that leaves the timer running
TransportSettlesNoClear(r, out) ==
  IF r.pc = "sending"
    THEN Continue([r EXCEPT !.transport = "settled"], out)
    ELSE [r EXCEPT !.transport = "settled", !.late = @ + 1]

\* the transport's promise settles: withTimeout's then/catch callbacks
\* clear the timer and settle withTimeout's promise, which has no effect
\* when the timer has settled it before
TransportSettles(r, out) ==
  IF r.pc = "sending"
    THEN Continue([r EXCEPT !.transport = "settled",
                            !.timer = IF @ = "armed" THEN "cleared" ELSE @],
                  out)
    ELSE [r EXCEPT !.transport = "settled", !.late = @ + 1]

\* a client method is called: coreRequest(config)
client_request ==
  /\ req.pc = "idle"
  /\ \E adapter \in {"fetch", "axios"}, refreshToken \in BOOLEAN,
        configTimeout \in {{}, {0}, {TimeoutMs}},
        clientTimeout \in {0, TimeoutMs} :
       /\ adapter = "axios" => clientTimeout = 0
       /\ req' = CoreRequest(
                   [IdleRequest EXCEPT
                      !.adapter = adapter,
                      !.refreshToken = refreshToken,
                      !.configTimeout = configTimeout,
                      !.timeout = EffectiveTimeout(adapter, configTimeout,
                                                   clientTimeout)],
                   FALSE)
  /\ UNCHANGED <<procVars, ext, batch, cache>>

\* the network answers (or fails)
transport_settle ==
  /\ req.transport = "pending"
  /\ \E out \in Settlements(req.adapter) : req' = TransportSettles(req, out)
  /\ UNCHANGED <<procVars, ext, batch, cache>>

\* withTimeout's timer fires: reject(new TimeoutError(timeout))
timer_fire ==
  /\ req.timer = "armed"
  /\ req' = IF req.pc = "sending" /\ req.transport = "pending"
              THEN Continue([req EXCEPT !.timer = "fired"], TimedOut)
              ELSE [req EXCEPT !.timer = "fired"]
  /\ UNCHANGED <<procVars, ext, batch, cache>>

\* await refreshToken() settles: the callback returned, having stored new
\* tokens or not, and the request is sent again; or it threw
refresh_settle ==
  /\ req.pc = "refreshing"
  /\ \/ \E stored \in {0, 1} :
          req' = CoreRequest([req EXCEPT !.refreshes = @ + 1,
                                         !.store = @ + stored],
                             TRUE)
     \/ req' = Settle([req EXCEPT !.refreshes = @ + 1,
                                   !.refreshThrew = TRUE],
                      TokenRefreshError(JsError(<<"refresh failed">>)))
  /\ UNCHANGED <<procVars, ext, batch, cache>>

\* ------------------------------------------------------ batch processor
\* new BatchProcessor(processor, batchSize, flushDelay): an empty batch and
\* no timer; promises are those add() has returned, runs the processor
\* calls made
NewBatchProcessor ==
  [items |-> <<>>, timeoutId |-> 0, promises |-> <<>>, runs |-> <<>>]

\* a promise that add() returns: flush()'s own promise ("flush"), the one
\* the flush timer's callback resolves ("timer"), or the one checkFlush
\* resolves ("poll")
AddPromise(via) == [via |-> via, state |-> "pending"]

\* flush(): the timer, if any, is cleared; an empty batch gives []; else the
\* items are taken and processor(items) is called, and promise p (0 when
\* the caller's promise is not one of add()'s) follows that call
Flush(b, p) ==
  LET b1 == [b EXCEPT !.timeoutId = 0]
  IN  IF b.items = <<>>
        THEN IF p = 0 THEN b1
             ELSE [b1 EXCEPT !.promises[p].state = "resolved"]
        ELSE [b1 EXCEPT !.items = <<>>,
                        !.runs = Append(@, [state |-> "running",
                                            items |-> b.items,
                                            promise |-> p])]

\* add(item)
batch_add ==
  /\ Len(batch.promises) < MaxAdds
  /\ LET p == Len(batch.promises) + 1
         b == [batch EXCEPT !.items = Append(@, p)]
     IN  batch' =
           IF Len(b.items) >= BatchSize
             THEN Flush([b EXCEPT !.promises = Append(@, AddPromise("flush"))],
                        p)
           ELSE IF b.timeoutId = 0
             THEN [b EXCEPT !.timeoutId = p,
                            !.promises = Append(@, AddPromise("timer"))]
           ELSE [b EXCEPT !.promises = Append(@, AddPromise("poll"))]
  /\ UNCHANGED <<procVars, ext, req, cache>>

\* flush() called by the owner of the processor
batch_flush ==
  /\ batch.items # <<>> \/ batch.timeoutId # 0
  /\ batch' = Flush(batch, 0)
  /\ UNCHANGED <<procVars, ext, req, cache>>

\* the flush timer fires: this.flush().then(resolve).catch(resolve)
batch_timer ==
  /\ batch.timeoutId # 0
  /\ batch' = Flush(batch, batch.timeoutId)
  /\ UNCHANGED <<procVars, ext, req, cache>>

\* the promise of processor call r settles; a promise of add() that follows
\* it settles as it does, except that the timer's promise is resolved
\* either way
processor_settle(r) ==
  /\ r \in DOMAIN batch.runs
  /\ batch.runs[r].state = "running"
  /\ \E how \in {"resolved", "rejected"} :
       LET p == batch.runs[r].promise
           b == [batch EXCEPT !.runs[r].state = how]
       IN  batch' =
             IF p = 0 THEN b
             ELSE [b EXCEPT !.promises[p].state =
                              IF b.promises[p].via = "timer"
                                THEN "resolved" ELSE how]
  /\ UNCHANGED <<procVars, ext, req, cache>>

\* checkFlush of promise p runs: resolve([]) when the batch is empty, else
\* setTimeout(checkFlush, 10)
batch_checkFlush(p) ==
  /\ p \in DOMAIN batch.promises
  /\ batch.promises[p].via = "poll"
  /\ batch.promises[p].state = "pending"
  /\ batch' = IF batch.items = <<>>
                THEN [batch EXCEPT !.promises[p].state = "resolved"]
                ELSE batch
  /\ UNCHANGED <<procVars, ext, req, cache>>

\* ------------------------------------------------------------ LRU cache
CacheKeys == {"a", "b", "c"}

CacheValues == {[kind |-> "value"], Undef}

\* new LRUCache(capacity): an empty Map, kept here in its iteration order
\* (oldest insertion first). touched lists the cached keys from the least
\* to the most recently touched by get or set; evicted holds, for the
\* latest set, the key it evicted and the key that was least recently
\* touched then
NewLRUCache(capacity) ==
  [capacity |-> capacity, entries |-> <<>>, touched |-> <<>>,
   evicted |-> {}]

\* the sequence of keys without those in keys
Without(seq, keys) == SelectSeq(seq, LAMBDA x : x \notin keys)

\* Map.has(key)
Has(c, key) == \E k \in DOMAIN c.entries : c.entries[k].key = key

\* Map.get(key)
ValueOf(c, key) ==
  IF Has(c, key)
    THEN (CHOOSE e \in {c.entries[k] : k \in DOMAIN c.entries} :
            e.key = key).value
    ELSE Undef

\* Map.delete(key)
MapDelete(entries, key) == SelectSeq(entries, LAMBDA e : e.key # key)

\* the key is touched: it becomes the most recently touched one
Touch(touched, key) == Append(Without(touched, {key}), key)

\* get(key)
cache_get(key) ==
  /\ LET value == ValueOf(cache, key)
         c == [cache EXCEPT
                 !.evicted = {},
                 !.touched = IF Has(cache, key) THEN Touch(@, key) ELSE @]
     IN  cache' =
           IF value # Undef
             THEN [c EXCEPT !.entries =
                              Append(MapDelete(@, key),
                                     [key |-> key, value |-> value])]
             ELSE c
  /\ UNCHANGED <<procVars, ext, req, batch>>

\* set(key, value)
cache_set(key, value) ==
  /\ LET kept ==
           IF Has(cache, key) THEN MapDelete(cache.entries, key)
           ELSE IF Len(cache.entries) >= cache.capacity
                  /\ cache.entries # <<>>
             THEN Tail(cache.entries)
           ELSE cache.entries
         full == ~Has(cache, key) /\ Len(cache.entries) >= cache.capacity
         out == {cache.entries[k].key : k \in DOMAIN cache.entries}
                  \ ({kept[k].key : k \in DOMAIN kept} \cup {key})
     IN  cache' =
           [cache EXCEPT
              !.entries = Append(kept, [key |-> key, value |-> value]),
              !.touched = Touch(Without(@, out), key),
              !.evicted =
                 IF full /\ cache.touched # <<>>
                   THEN {[keys |-> out, lru |-> Head(cache.touched)]}
                   ELSE {}]
  /\ UNCHANGED <<procVars, ext, req, batch>>

\* delete(key)
cache_delete(key) ==
  /\ cache' = [cache EXCEPT
                 !.entries = MapDelete(@, key),
                 !.touched = Without(@, {key}),
                 !.evicted = {}]
  /\ UNCHANGED <<procVars, ext, req, batch>>

\* clear()
cache_clear ==
  /\ cache' = [cache EXCEPT !.entries = <<>>, !.touched = <<>>,
                            !.evicted = {}]
  /\ UNCHANGED <<procVars, ext, req, batch>>

\* ---------------------------------------------- context handlers
\* err instanceof Error ? err : new Error(String(err))
ToError(err) ==
  IF err.kind \in {"Error", "RetryError", "ValidationError", "TypeError",
                   "ConfigurationError"}
    THEN err ELSE JsError(MessageOf(err))

\* what a call of ctxHandler does: it returns a context or throws a value
Returns(v) == [kind |-> "returns", value |-> v]

Throws(v) == [kind |-> "throws", value |-> v]

CtxHandlerOutcomes ==
  {Returns(Ctx), Returns(Null), Returns(Undef),
   Throws(JsError(<<"no session">>)), Throws([kind |-> "string"]),
   Throws(Undef)}

\* handler() returned the procedure factory bound to ctx
Factory(ctx) == [kind |-> "factory", ctx |-> ctx]

\* extendProcedure(base).handler(ctxHandler), where internalAccess says
\* whether base() carries the internal accessors
ExtendHandler(internalAccess, out) ==
  IF ~internalAccess
    THEN Throws(JsError(<<"Base procedure does not support internal access">>))
    ELSE LET ctx == IF out.kind = "returns" THEN out.value ELSE Undef
             creationError ==
               IF out.kind = "throws" THEN ToError(out.value) ELSE Null
         IN  IF ctx = Undef
               THEN Throws(JsError(<<"Context was not properly initialized">>))
             ELSE IF creationError # Null THEN Throws(creationError)
             ELSE Factory(ctx)

\* createHttpClientProcedure(client).handler(ctxHandler)
HttpClientHandler(out) ==
  LET ctx == IF out.kind = "returns" THEN out.value ELSE Undef
      creationError ==
        IF out.kind = "throws" THEN ToError(out.value) ELSE Null
  IN  IF creationError # Null THEN Throws(creationError) ELSE Factory(ctx)

extend_handler ==
  /\ Len(ext) < MaxHandlerCalls
  /\ \E internalAccess \in BOOLEAN, out \in CtxHandlerOutcomes :
       ext' = Append(ext, [api |-> "extendProcedure",
                           called |-> internalAccess, ctxHandler |-> out,
                           result |-> ExtendHandler(internalAccess, out)])
  /\ UNCHANGED <<procVars, req, batch, cache>>

httpClient_handler ==
  /\ Len(ext) < MaxHandlerCalls
  /\ \E out \in CtxHandlerOutcomes :
       ext' = Append(ext, [api |-> "createHttpClientProcedure",
                           called |-> TRUE, ctxHandler |-> out,
                           result |-> HttpClientHandler(out)])
  /\ UNCHANGED <<procVars, req, batch, cache>>

\* ------------------------------------------------------- specification
\* no handler() call made, no request sent, an empty batch, an empty cache
UtilInit ==
  /\ ext = <<>>
  /\ req = IdleRequest
  /\ batch = NewBatchProcessor
  /\ cache = NewLRUCache(0)

Init ==
  /\ config = createProcedureBuilder
  /\ hasCallable = FALSE
  /\ calls = [i \in CallIds |-> IdleCall]
  /\ lastCall = Returned("createProcedureBuilder")
  /\ others = [b \in BuilderIds |-> {}]
  /\ UtilInit

Next ==
  \/ builder_input
  \/ builder_onStart
  \/ builder_onSuccess
  \/ builder_retry
  \/ builder_handler
  \/ builder_output
  \/ builder_transform
  \/ builder_onComplete
  \/ builder_catchAll
  \/ \E i \in CallIds :
       \/ callable_invoke(i)
       \/ builder_invoke(i)
       \/ callable_onStart(i)
       \/ callable_processInput(i)
       \/ retry_attempt(i)
       \/ retry_delay(i)
       \/ callable_transform(i)
       \/ callable_processOutput(i)
       \/ callable_onSuccess(i)
       \/ callable_onComplete(i)
       \/ callable_catch_onComplete(i)
       \/ callable_catchAll(i)
       \/ collect(i)

Spec == Init /\ [][Next]_vars

\* two callers of one Callable Procedure, built by input(), handler(),
\* transform(), output(), onComplete(), retry() and catchAll()
ConcConfig ==
  [createProcedureBuilder EXCEPT
     !.inputSchema = Schema, !.mainHandler = Fn, !.transformFn = Fn,
     !.outputSchemaOrFn = Schema, !.onCompleteFn = Fn, !.catchAllFn = Fn,
     !.retryOptions = [retries |-> {2}, delay |-> {DelayMs},
                       delayFn |-> FALSE]]

ConcInit ==
  /\ config = ConcConfig
  /\ hasCallable = TRUE
  /\ calls = [i \in ConcIds |-> IdleCall]
  /\ lastCall = Returned("catchAll")
  /\ others = [b \in BuilderIds |-> {}]
  /\ UtilInit

ConcNext ==
  \E i \in ConcIds :
    \/ concurrent_invoke(i)
    \/ callable_processInput(i)
    \/ retry_attempt(i)
    \/ retry_delay(i)
    \/ callable_transform(i)
    \/ callable_processOutput(i)
    \/ callable_onComplete(i)
    \/ callable_catch_onComplete(i)
    \/ callable_catchAll(i)

ConcSpec == ConcInit /\ [][ConcNext]_vars

\* one factory, two builders, and the caller configuring either of them
FactoryNext ==
  \/ builder_input
  \/ builder_retry
  \/ builder_handler
  \/ builder_catchAll
  \/ factory_procedure
  \/ \E b \in BuilderIds : caller_select(b)

FactorySpec == Init /\ [][FactoryNext]_vars

\* one invocation of a Callable Procedure built by input(), handler() and
\* catchAll(), with the builder still in its owner's hands
InflightConfig ==
  [createProcedureBuilder EXCEPT
     !.inputSchema = Schema, !.mainHandler = Fn, !.catchAllFn = Fn]

InflightInit ==
  /\ config = InflightConfig
  /\ hasCallable = TRUE
  /\ calls = [i \in CallIds |-> IdleCall]
  /\ lastCall = Returned("catchAll")
  /\ others = [b \in BuilderIds |-> {}]
  /\ UtilInit

InflightNext ==
  \/ inflight_transform
  \/ inflight_output
  \/ inflight_onSuccess
  \/ inflight_onComplete
  \/ inflight_retry
  \/ \E i \in CallIds :
       \/ callable_invoke(i)
       \/ callable_processInput(i)
       \/ retry_attempt(i)
       \/ retry_delay(i)
       \/ callable_transform(i)
       \/ callable_processOutput(i)
       \/ callable_onSuccess(i)
       \/ callable_onComplete(i)
       \/ callable_catch_onComplete(i)
       \/ callable_catchAll(i)

InflightSpec == InflightInit /\ [][InflightNext]_vars

\* the handler() calls of the two procedure APIs
ExtendNext ==
  \/ extend_handler
  \/ httpClient_handler

ExtendSpec == Init /\ [][ExtendNext]_vars

\* one request of a client made by either adapter
ClientNext ==
  \/ client_request
  \/ transport_settle
  \/ timer_fire
  \/ refresh_settle

ClientSpec == Init /\ [][ClientNext]_vars

\* one BatchProcessor and its callers
BatchNext ==
  \/ batch_add
  \/ batch_flush
  \/ batch_timer
  \/ \E r \in 1..MaxAdds : processor_settle(r)
  \/ \E p \in 1..MaxAdds : batch_checkFlush(p)

\* timers fire and the processor's promises settle
BatchFairSpec ==
  /\ Init
  /\ [][BatchNext]_vars
  /\ WF_vars(batch_timer)
  /\ \A r \in 1..MaxAdds : WF_vars(processor_settle(r))
  /\ \A p \in 1..MaxAdds : WF_vars(batch_checkFlush(p))

\* one LRUCache of any capacity from 0 up, and its user
CacheInit ==
  /\ config = createProcedureBuilder
  /\ hasCallable = FALSE
  /\ calls = [i \in CallIds |-> IdleCall]
  /\ lastCall = Returned("createProcedureBuilder")
  /\ others = [b \in BuilderIds |-> {}]
  /\ ext = <<>>
  /\ req = IdleRequest
  /\ batch = NewBatchProcessor
  /\ \E capacity \in 0..MaxCapacity : cache = NewLRUCache(capacity)

CacheNext ==
  \/ \E key \in CacheKeys : cache_get(key)
  \/ \E key \in CacheKeys, value \in CacheValues : cache_set(key, value)
  \/ \E key \in CacheKeys : cache_delete(key)
  \/ cache_clear

CacheSpec == CacheInit /\ [][CacheNext]_vars

\* ---------------------------------------------------- observations
\* the invocation ran the pipeline of a procedure that has a handler
Ran(c) == c.pc = "done" /\ c.trace # <<>>

Entries(c, st) == {k \in DOMAIN c.trace : c.trace[k].st = st}

\* one of the stages onStart .. onSuccess failed (the handler stage is the
\* whole retry loop)
StageFailed(c) ==
  \E k \in DOMAIN c.trace :
    /\ c.trace[k].res = "throw"
    /\ c.trace[k].st \in {"onStart", "input", "retry", "transform", "output",
                          "onSuccess"}

Resolved(c) == c.result.settled = "resolved"

\* ------------------------------------------------------------- claims
\* C1: an invocation of a procedure with a handler always resolves to a
\* Result, and when one of onStart, input validation, the handler (after
\* retries), transform, output validation, onSuccess failed, that Result
\* has data === null and the failure as its error.
C1_StageFailureReturned ==
  \A i \in CallIds :
    Ran(calls[i]) =>
      /\ Resolved(calls[i])
      /\ StageFailed(calls[i]) =>
           /\ calls[i].result.data = Null
           /\ config.catchAllFn = None =>
                calls[i].result.error = calls[i].error

\* C2: whatever the catchAll mapper does, throwing included, an invocation
\* of a procedure with a handler resolves to a Result and does not reject.
C2_AlwaysAResult ==
  \A i \in CallIds :
    (calls[i].pc = "done" /\ config.mainHandler # None) =>
      calls[i].result.settled # "rejected"

\* C3: every Result has exactly one of data and error non-null.
C3_ExactlyOneNonNull ==
  \A i \in CallIds :
    Resolved(calls[i]) =>
      (calls[i].result.data.kind = "null") # (calls[i].result.error.kind = "null")

\* C4: Result.error === null exactly when every stage from onStart through
\* onSuccess completed without failure.
C4_ErrorNullIffSuccess ==
  \A i \in CallIds :
    (Ran(calls[i]) /\ Resolved(calls[i])) =>
      ((calls[i].result.error.kind = "null") <=> ~StageFailed(calls[i]))

\* the position of a stage in the documented order; the retry loop
\* (attempts, waits, its outcome) is one stage
Rank(st) ==
  CASE st = "onStart" -> 1
    [] st = "input" -> 2
    [] st \in {"handler", "delay", "retry"} -> 3
    [] st = "transform" -> 4
    [] st = "output" -> 5
    [] st = "onSuccess" -> 6
    [] st \in {"onComplete", "catch_onComplete"} -> 7
    [] st \in {"catchAll", "done", "idle"} -> 8

StageNames(c) == [k \in DOMAIN c.trace |-> c.trace[k].st]

C6_OnCompleteOnce ==
  \A i \in CallIds :
    (Ran(calls[i]) /\ config.onCompleteFn # None) =>
      Cardinality(Entries(calls[i], "onComplete")) = 1

\* C7: what onComplete throws never changes the outcome: when every stage
\* through onSuccess succeeded the Result is {data: output, error: null},
\* and when a stage failed the error is that stage's and not onComplete's.
C7_OnCompleteThrowSwallowed ==
  \A i \in CallIds :
    (Ran(calls[i]) /\ Resolved(calls[i])) =>
      /\ ~StageFailed(calls[i]) =>
           /\ calls[i].result.data = calls[i].output
           /\ calls[i].result.error = Null
      /\ StageFailed(calls[i]) =>
           /\ calls[i].error \notin OnCompleteThrows
           /\ config.catchAllFn = None =>
                calls[i].result.error = calls[i].error

\* retries and delay of the configuration, with the documented defaults
RetriesOf(cfg) ==
  IF cfg.retryOptions.retries = {} THEN DefaultRetries
  ELSE CHOOSE n \in cfg.retryOptions.retries : TRUE

DelayOf(cfg, attempt) ==
  IF cfg.retryOptions.delayFn THEN DelayFn(attempt, Null)
  ELSE IF cfg.retryOptions.delay = {} THEN DefaultDelay
  ELSE CHOOSE d \in cfg.retryOptions.delay : TRUE

Failures(c) ==
  {k \in Entries(c, "handler") : c.trace[k].res = "throw"}

C9_RetryUntilSuccess ==
  \A i \in CallIds :
    (\E k \in Entries(calls[i], "retry") : calls[i].trace[k].res = "ok") =>
      LET f == Cardinality(Failures(calls[i]))
      IN  /\ f < RetriesOf(config)
          /\ HandlerCalls(calls[i]) = f + 1
          /\ Cardinality(Entries(calls[i], "delay")) = f
          /\ calls[i].waits = [j \in 1..f |-> DelayOf(config, j)]

C9_Witness ==
  \E i \in CallIds :
    /\ Resolved(calls[i])
    /\ calls[i].result.error = Null
    /\ RetriesOf(config) = 3
    /\ HandlerCalls(calls[i]) = 3
    /\ Cardinality(Entries(calls[i], "delay")) = 2

\* C10: when all N >= 2 attempts fail with non-4xx errors the retry loop
\* throws a RetryError with attempts = N whose lastError is the N-th
\* attempt's error, after exactly N handler invocations; with retries 1 the
\* single failure is thrown as it is.
C10_RetryExhausted ==
  \A i \in CallIds :
    ( /\ \E k \in Entries(calls[i], "retry") : calls[i].trace[k].res = "throw"
      /\ calls[i].thrown = "error" )
    => LET n == RetriesOf(config)
       IN  /\ HandlerCalls(calls[i]) = n
           /\ n >= 2 =>
                /\ calls[i].error.kind = "RetryError"
                /\ calls[i].error.attempts = n
                /\ calls[i].error.lastError.kind = "Error"
                /\ calls[i].error.lastError.at = n
           /\ n = 1 =>
                /\ calls[i].error.kind = "Error"
                /\ calls[i].error.at = 1

C10_Witness ==
  \E i \in CallIds :
    /\ Resolved(calls[i])
    /\ calls[i].error.kind = "RetryError"
    /\ calls[i].error.attempts = 3
    /\ HandlerCalls(calls[i]) = 3

Max(a, b) == IF a >= b THEN a ELSE b

\* C11: an invocation that reached the retry loop (it passed onStart and
\* input validation) invokes the handler at least once and at most
\* max(1, retries) times, whatever retry configuration the builder stored,
\* retries of 0 or less included.
C11_HandlerAtLeastOnce ==
  \A i \in CallIds :
    Entries(calls[i], "retry") # {} =>
      /\ HandlerCalls(calls[i]) >= 1
      /\ HandlerCalls(calls[i]) <= Max(1, RetriesOf(config))

\* the single-use configurators and the slot each one guards
Setters ==
  {"input", "onStart", "onSuccess", "handler", "output", "transform",
   "onComplete", "catchAll"}

SlotOf(op) ==
  CASE op = "input" -> "inputSchema"
    [] op = "onStart" -> "onStartFn"
    [] op = "onSuccess" -> "onSuccessFn"
    [] op = "handler" -> "mainHandler"
    [] op = "output" -> "outputSchemaOrFn"
    [] op = "transform" -> "transformFn"
    [] op = "onComplete" -> "onCompleteFn"
    [] op = "catchAll" -> "catchAllFn"

\* C12: when no handler is configured, catchAll() and an invocation of the
\* procedure throw a ConfigurationError with field 'mainHandler'
\* synchronously: the call itself throws it, no stage has run, and there is
\* neither a callable nor a promise that settles.
C12_NoHandlerThrowsSync ==
  (config.mainHandler = None /\ lastCall.op \in {"catchAll", "invoke"}) =>
    /\ lastCall.threw.kind = "ConfigurationError"
    /\ lastCall.threw.field = "mainHandler"
    /\ ~hasCallable
    /\ \A i \in CallIds :
         calls[i].trace = <<>> /\ calls[i].result = Pending

C14_DoubleCallConfigurationError ==
  \A op \in Setters :
    ( /\ lastCall.op = op
      /\ lastCall.threw # Null
      /\ lastCall.threw.message = <<op, "() can only be called once.">> )
    => /\ lastCall.threw.kind = "ConfigurationError"
       /\ lastCall.threw.field \in {op, SlotOf(op)}

C16_ConfigReadOnly == [][hasCallable => config' = config]_vars

\* C17: every argument given to onComplete has isSuccess # isError, and its
\* error is not undefined exactly when isError.
C17_InfoFlags ==
  \A i \in CallIds :
    \A k \in DOMAIN calls[i].infos :
      LET info == calls[i].infos[k]
      IN  /\ info.isSuccess # info.isError
          /\ (info.error # Undef) <=> info.isError

\* C18: after a stage (onStart, input validation, the retried handler,
\* transform, output validation, onSuccess, onComplete on the success path)
\* has failed, the only things that run are onComplete and catchAll: no
\* handler after a failed onStart or input validation, no transform or
\* output validation after a failed handler, no onSuccess after any failure.
C18_NothingAfterFailure ==
  \A i \in CallIds :
    \A k \in DOMAIN calls[i].trace :
      (calls[i].trace[k].res = "throw" /\ calls[i].trace[k].st # "handler") =>
        /\ \A j \in DOMAIN calls[i].trace :
             j > k => calls[i].trace[j].st \in {"onComplete", "catchAll"}
        /\ calls[i].pc \in {"catch_onComplete", "catchAll", "done"}

C18_Witness ==
  \E i \in CallIds :
    /\ calls[i].pc = "done"
    /\ config.onSuccessFn # None
    /\ config.transformFn # None
    /\ config.outputSchemaOrFn # None
    /\ StageNames(calls[i]) = <<"onStart", "input", "onComplete", "catchAll">>
    /\ calls[i].trace[2].res = "throw"

\* C19: onStart, input validation, transform, output validation and
\* onSuccess each run at most once in an invocation, and no handler attempt
\* follows a transform or an output validation, failed or not.
C19_RetryWrapsHandlerOnly ==
  \A i \in CallIds :
    /\ \A st \in {"onStart", "input", "transform", "output", "onSuccess"} :
         Cardinality(Entries(calls[i], st)) <= 1
    /\ \A k \in Entries(calls[i], "transform") \cup Entries(calls[i], "output") :
         /\ \A j \in Entries(calls[i], "handler") : j < k
         /\ calls[i].pc # "handler"

C19_Witness ==
  \E i \in CallIds :
    /\ calls[i].pc = "done"
    /\ HandlerCalls(calls[i]) = 2
    /\ RetriesOf(config) = 3
    /\ \E k \in Entries(calls[i], "transform") : calls[i].trace[k].res = "throw"

\* C20: every handler attempt receives the input that input validation
\* parsed (the raw input when no input schema is set), with the ctx and the
\* client the builder was created with.
C20_HandlerGetsParsedInput ==
  \A i \in CallIds :
    \A p \in calls[i].params :
      p = [input |-> IF config.inputSchema # None
                       THEN Parsed(calls[i].input)
                       ELSE calls[i].input,
           ctx |-> Ctx, client |-> Client]

C20_Witness ==
  \E i \in CallIds :
    /\ calls[i].pc = "done"
    /\ config.inputSchema # None
    /\ HandlerCalls(calls[i]) = 3
    /\ calls[i].params =
         {[input |-> Parsed(calls[i].input), ctx |-> Ctx, client |-> Client]}

\* the catch block ran: the local error is set (no modelled stage throws
\* null)
Caught(c) == c.error # Null

\* the invocation returned { data, error: null } from the try block
Succeeded(c) == c.pc = "done" /\ c.trace # <<>> /\ ~Caught(c)

\* C21: a rejected input gives the ValidationError of type 'input' and no
\* handler call; a rejected output gives the ValidationError of type
\* 'output', whether the schema is static or comes from the schema function,
\* which is called with { ctx, input, output }; without a schema the input
\* and the output of a procedure that has a handler pass through unchanged.
C21_ValidationErrors ==
  \A i \in CallIds :
    LET c == calls[i]
    IN  /\ \A k \in Entries(c, "input") :
             c.trace[k].res = "throw" =>
               /\ HandlerCalls(c) = 0
               /\ c.params = {}
               /\ c.error = ValidationError("input",
                                            <<"Input validation failed">>)
        /\ \A k \in Entries(c, "output") :
             /\ (c.trace[k].res = "throw" /\ c.error \notin SchemaFnThrows) =>
                  c.error = ValidationError("output",
                                            <<"Output validation failed">>)
             /\ config.outputSchemaOrFn = Fn =>
                  c.schemaArgs =
                    {[ctx |-> Ctx, input |-> c.parsedInput,
                      output |-> IF c.trace[k].res = "ok" THEN c.output.of
                                 ELSE c.output]}
        /\ config.outputSchemaOrFn # Fn => c.schemaArgs = {}
        /\ (config.inputSchema = None /\ config.mainHandler # None) =>
             c.parsedInput = c.input /\ Entries(c, "input") = {}
        /\ config.outputSchemaOrFn = None =>
             c.output.kind # "parsed" /\ Entries(c, "output") = {}

C21_Witness ==
  \E i \in CallIds :
    /\ calls[i].pc = "done"
    /\ config.outputSchemaOrFn = Fn
    /\ config.transformFn # None
    /\ calls[i].error = ValidationError("output", <<"Output validation failed">>)
    /\ calls[i].schemaArgs # {}

C23_CatchAllOnce ==
  \A i \in CallIds :
    LET c == calls[i]
        n == Len(c.trace)
    IN  /\ (c.pc = "done" /\ Caught(c) /\ config.catchAllFn # None) =>
             /\ Len(c.mapper) = 1
             /\ c.mapper[1].arg = c.error
             /\ Entries(c, "catchAll") = {n}
             /\ config.onCompleteFn # None =>
                  /\ c.trace[n - 1].st = "onComplete"
                  /\ c.infos[Len(c.infos)].isError
                  /\ c.infos[Len(c.infos)].error = c.error
             /\ \A v \in c.mapper[1].ret :
                  /\ Resolved(c)
                  /\ c.result.data = Null
                  /\ c.result.error = v
        /\ ~Caught(c) => c.mapper = <<>> /\ Entries(c, "catchAll") = {}
        /\ (c.pc = "done" /\ Caught(c) /\ config.catchAllFn = None) =>
             /\ c.mapper = <<>>
             /\ Resolved(c)
             /\ c.result.error = c.error

C23_Witness ==
  \E i \in CallIds :
    /\ calls[i].pc = "done"
    /\ config.onCompleteFn # None
    /\ HandlerCalls(calls[i]) = 2
    /\ Len(calls[i].mapper) = 1
    /\ calls[i].mapper[1].ret = {Null}
    /\ calls[i].mapper[1].arg.kind = "RetryError"

\* C24: with no input schema, no output schema and no transform, every
\* handler attempt receives the raw input and the data of a successful
\* Result is the value the handler returned.
C24_PassThrough ==
  \A i \in CallIds :
    LET c == calls[i]
    IN  ( /\ config.inputSchema = None
          /\ config.outputSchemaOrFn = None
          /\ config.transformFn = None )
        => /\ \A p \in c.params : p.input = c.input
           /\ Succeeded(c) =>
                /\ Resolved(c)
                /\ c.returned = {c.result.data}
                /\ c.result.data \in HandlerReturns(c.input)

C24_Witness ==
  \E i \in CallIds :
    /\ Succeeded(calls[i])
    /\ config.inputSchema = None
    /\ config.outputSchemaOrFn = None
    /\ config.transformFn = None
    /\ config.onSuccessFn # None
    /\ calls[i].result.data = HandlerValue(calls[i].input)

C28_NonClientErrorsRetried ==
  \A i \in CallIds :
    LET c == calls[i]
        H == Entries(c, "handler")
    IN  ( /\ H # {}
          /\ \A j \in H : (\A m \in H : m <= j) => c.trace[j].res = "throw"
          /\ c.thrown \in {"error", "value"}
          /\ Cardinality(H) < RetriesOf(config) )
        => /\ c.pc \in {"delay", "handler"}
           /\ Entries(c, "retry") = {}

C28_Witness ==
  \E i \in CallIds :
    /\ calls[i].pc = "handler"
    /\ HandlerCalls(calls[i]) = 2
    /\ calls[i].lastError.kind = "Error"
    /\ calls[i].lastError.rstatus = {500}

\* C29: what is caught when the onStart or the onSuccess hook throws is an
\* Error with the message 'Error in <hook> hook: <original message>', and
\* that Error is what onComplete and the mapper receive.
C29_HookErrorWrapped ==
  \A i \in CallIds :
    LET c == calls[i]
    IN  \A h \in {"onStart", "onSuccess"} :
          \A k \in Entries(c, h) :
            c.trace[k].res = "throw" =>
              /\ c.error \in
                   {JsError(<<"Error in", h, "hook:">> \o MessageOf(v)) :
                      v \in HookThrows}
              /\ (config.onCompleteFn # None /\ c.pc \in {"catchAll", "done"}) =>
                   /\ Len(c.infos) = 1
                   /\ c.infos[1].error = c.error
              /\ \A m \in DOMAIN c.mapper : c.mapper[m].arg = c.error

C29_Witness ==
  \E i \in CallIds :
    /\ calls[i].pc = "done"
    /\ calls[i].error =
         JsError(<<"Error in", "onSuccess", "hook:", "hook failed">>)
    /\ Len(calls[i].infos) = 1
    /\ Len(calls[i].mapper) = 1

RECURSIVE Roots(_)
\* the raw inputs that the value v was computed from
Roots(v) ==
  IF v.kind = "raw" THEN {v}
  ELSE IF v.kind \in {"parsed", "transformed", "mapped"} THEN Roots(v.of)
  ELSE IF v.kind = "handled" THEN Roots(v.input)
  ELSE IF v.kind = "RetryError" THEN Roots(v.lastError)
  ELSE {}

\* C25: with two invocations of one Callable Procedure interleaved at their
\* suspension points, each invocation's handler receives the parse of that
\* invocation's own input, and its output, its onComplete arguments and its
\* Result are made of its own input, output and error only.
C25_NoSharedCallState ==
  \A i \in ConcIds :
    LET c == calls[i]
        own == OwnInput(i)
    IN  c.pc # "idle" =>
          /\ c.input = own
          /\ c.parsedInput \in {own, Parsed(own)}
          /\ \A p \in c.params : p.input = Parsed(own)
          /\ \A h \in c.returned : h \in HandlerReturns(Parsed(own))
          /\ Roots(c.output) \subseteq {own}
          /\ \A k \in DOMAIN c.infos :
               /\ c.infos[k].input = c.parsedInput
               /\ c.infos[k].output = c.output
               /\ c.infos[k].error \in {Undef, c.error}
          /\ c.pc = "done" =>
               /\ c.result.data \in {Null, Undef, c.output}
               /\ Resolved(c) =>
                    c.result.error \in {Null, c.error} \cup CatchAllReturns(c.error)

C25_Witness ==
  /\ calls[1].pc = "delay"
  /\ calls[2].pc = "output"
  /\ calls[1].params # {}
  /\ calls[2].output = Transformed(HandlerValue(Parsed(OwnInput(2))))

\* C26: a call of the factory leaves the builder in use as it is and adds a
\* builder whose configuration is the initial one, with the factory's ctx
\* and client; after that every step, any configurator call included,
\* leaves the configuration and the callable of a builder that is not the
\* one in use as they are (the only other thing a step does to it is to make
\* it the builder in use, unchanged).
C26_IndependentBuilders ==
  [][\A b \in BuilderIds :
       /\ (others[b] = {} /\ others'[b] # {}) =>
            /\ others'[b] = {[config |-> createProcedureBuilder,
                              hasCallable |-> FALSE]}
            /\ \A o \in others'[b] :
                 o.config.ctx = config.ctx /\ o.config.client = config.client
            /\ config' = config
            /\ hasCallable' = hasCallable
       /\ others[b] # {} =>
            \/ others'[b] = others[b]
            \/ /\ others'[b] = {[config |-> config, hasCallable |-> hasCallable]}
               /\ others[b] = {[config |-> config', hasCallable |-> hasCallable']}
    ]_vars

C26_Witness ==
  /\ config.inputSchema = Schema
  /\ config.mainHandler = None
  /\ lastCall.op = "retry"
  /\ \E o \in others[2] :
       /\ o.hasCallable
       /\ o.config.inputSchema = None
       /\ o.config.retryOptions # config.retryOptions

\* C31: a catchAll() call that throws the ConfigurationError for a missing
\* handler leaves the configuration as it was: the catchAll slot is still
\* unset, so that handler(fn) and catchAll(fn) can follow.
C31_FailedCatchAllNoEffect ==
  ( /\ lastCall.op = "catchAll"
    /\ lastCall.threw.kind = "ConfigurationError" )
  => config.catchAllFn = None

\* C32: an invocation runs against the configuration it started with: a
\* transform(), output(), onSuccess(), onComplete() or retry() call made
\* while it is suspended adds no stage to it and does not change the number
\* of handler attempts it may make.
C32_InflightUsesStartConfig ==
  \A i \in CallIds :
    /\ \A k \in DOMAIN calls[i].trace :
         calls[i].trace[k].st \in
             {"transform", "output", "onSuccess", "onComplete"}
           => Configured(InflightConfig, calls[i].trace[k].st)
    /\ HandlerCalls(calls[i]) <= RetriesOf(InflightConfig)

\* C33: when ctxHandler throws, handler() of either API throws that same
\* value (wrapped in an Error when it is not one) and returns no procedure
\* factory.
C33_CtxHandlerErrorPropagates ==
  \A k \in DOMAIN ext :
    (ext[k].called /\ ext[k].ctxHandler.kind = "throws") =>
      ext[k].result = Throws(ToError(ext[k].ctxHandler.value))

C35_TokenRefreshErrorIffRefreshThrew ==
  req.pc = "done" =>
    /\ req.result.kind = "TokenRefreshError" <=> req.refreshThrew
    /\ (req.sends = 2 /\ req.seen[2] # Response(200)) =>
         req.result = ErrorOf(req, req.seen[2])

C35_Witness ==
  /\ req.pc = "done"
  /\ req.sends = 2
  /\ req.seen[2] = Response(500)
  /\ req.result = HttpError(500)

\* C36: a fetch request with timeout t > 0 settles once per send: with the
\* response's outcome when the fetch settles first, and the timer is then
\* cancelled; with TimeoutError(t) when the timer fires first, and a
\* response that arrives later changes nothing; with timeout 0 there is no
\* timer and no TimeoutError.
C36_TimeoutRace ==
  req.adapter = "fetch" =>
    /\ Len(req.seen) <= req.sends
    /\ req.pc = "done" => Len(req.seen) = req.sends
    /\ req.timeout = 0 =>
         /\ req.timer = "none"
         /\ req.result.kind # "TimeoutError"
    /\ req.timeout # 0 =>
         /\ req.timer = "fired" =>
              /\ req.pc = "done"
              /\ req.seen[req.sends] = TimedOut
              /\ req.result = TimeoutError(req.timeout)
         /\ (req.sends > 0 /\ req.timer # "fired") =>
              /\ req.transport = "pending" <=> req.timer = "armed"
              /\ req.transport = "settled" <=> req.timer = "cleared"
              /\ req.late = 0
              /\ req.result.kind # "TimeoutError"
              /\ \A k \in DOMAIN req.seen : req.seen[k] # TimedOut

C36_Witness ==
  /\ req.adapter = "fetch"
  /\ req.timer = "fired"
  /\ req.late = 1
  /\ req.sends = 2
  /\ req.configTimeout = {}
  /\ req.result = TimeoutError(TimeoutMs)

\* C37: every promise that add() has returned is eventually settled, when
\* timers fire and the processor's promises settle.
C37_AddPromisesSettle ==
  \A p \in 1..MaxAdds :
    (Len(batch.promises) >= p /\ batch.promises[p].state = "pending")
      ~> (Len(batch.promises) >= p /\ batch.promises[p].state # "pending")

\* C38: the cache never holds more entries than its capacity, and a set
\* that inserts a new key into a full cache evicts exactly the key least
\* recently touched by get or set.
C38_SizeBoundAndLRU ==
  /\ Len(cache.entries) <= cache.capacity
  /\ \A e \in cache.evicted : e.keys = {e.lru}

====
